---- MODULE Spec2Model ----
(***************************************************************************)
(* AstroChain: a hash-chained ledger (core/blockchain.py) whose blocks are *)
(* anchored to an astronomical snapshot checked by the Proof-of-Astronomy  *)
(* gate (consensus/proof_of_astronomy.py).                                 *)
(*                                                                         *)
(* Strings are TLA+ strings and f-strings are concatenations (\o).         *)
(* hashlib.sha256(s).hexdigest() is modelled as a collision-free digest:   *)
(* the text "H(" s ")".  Python floats are modelled as integers rounded to *)
(* MantBits significant bits (round-to-nearest, ties-to-even), the IEEE    *)
(* rule of binary64 at a reduced mantissa width.                           *)
(*                                                                         *)
(* Specifications: Spec (the ledger, one call at a time), SpecTamper (plus *)
(* a write to a stored block), SpecConc (create_block interleaved with     *)
(* add_transaction), SpecMerkle (calculate_merkle_root), SpecGate          *)
(* (can_create_block and find_valid_nonce), SpecFingerprint                *)
(* (calculate_astronomical_consensus), SpecTime (is_time_for_new_block),   *)
(* SpecRound (the round of the demonstration through gate and ledger),     *)
(* SpecDemo (run_full_demo a statement at a time, admission included) and  *)
(* SpecRead (the read operations of the ledger as calls).                  *)
(***************************************************************************)
EXTENDS Integers, Sequences, FiniteSets, TLC

VARIABLES
    chain,                  \* AstroBlockchain.chain: sequence of Block records
    pending_transactions,   \* AstroBlockchain.pending_transactions
    clock,                  \* the wall clock read by datetime.utcnow()
    log,                    \* history: the calls made on the ledger, in order
    cb,                     \* frame of a create_block call running line by line
    mk,                     \* frame of a calculate_merkle_root call running line by line
    gate                    \* the ProofOfAstronomy object, the calls made on it
                            \* and on the ledger's reads, the locals of run_full_demo

vars == <<chain, pending_transactions, clock, log, cb, mk, gate>>

----------------------------------------------------------------------------
\* Bounds of the model.

\* Largest number of calls made on the ledger in one behaviour.
MaxCalls == 4
\* Largest value of the wall clock.
MaxClock == 1
\* Mantissa width of the modelled binary floating point (binary64 has 53).
MantBits == 7
\* Longest transaction list given to calculate_merkle_root on its own.
MaxLen == 4
\* Largest max_attempts given to find_valid_nonce.
MaxAttempts == 3

----------------------------------------------------------------------------
\* Python primitives.

\* hashlib.sha256(s.encode()).hexdigest(), collision free.
sha256(s) == "H(" \o s \o ")"

\* dict.get(key, default)
DictGet(d, key, default) == IF key \in DOMAIN d THEN d[key] ELSE default

\* d[key] = value
DictSet(d, key, value) ==
    [k \in (DOMAIN d) \cup {key} |-> IF k = key THEN value ELSE d[k]]

\* the empty dict {}
EmptyDict == [k \in {} |-> ""]

Abs(x) == IF x < 0 THEN -x ELSE x

RECURSIVE Pow(_, _)
Pow(b, e) == IF e = 0 THEN 1 ELSE b * Pow(b, e - 1)

\* Spacing of the representable floats around magnitude m.
RECURSIVE Ulp(_)
Ulp(m) == IF m < Pow(2, MantBits) THEN 1 ELSE 2 * Ulp(m \div 2)

\* Round-to-nearest, ties-to-even, to MantBits significant bits.
FRound(x) ==
    LET m == Abs(x)
        u == Ulp(m)
        q == m \div u
        r == m % u
        n == IF 2 * r < u THEN q * u
             ELSE IF 2 * r > u THEN (q + 1) * u
             ELSE IF q % 2 = 0 THEN q * u ELSE (q + 1) * u
    IN  IF x < 0 THEN -n ELSE n

\* balance -= amount, balance += amount on floats
FSub(a, b) == FRound(a - b)
FAdd(a, b) == FRound(a + b)

\* str() of an integer-valued float: 100.0 -> "100.0"
FloatStr(x) == ToString(x) \o ".0"

\* datetime.utcnow().isoformat()
UtcNowIso == "2026-11-01T07:4" \o ToString(clock) \o ":00"

\* json.dumps(data, sort_keys=True) for the auxiliary data of a transaction
json_dumps(data) ==
    IF DOMAIN data = {} THEN "{}"
    ELSE "{\"memo\": \"" \o data["memo"] \o "\"}"

----------------------------------------------------------------------------
\* Transaction (core/blockchain.py).

\* Transaction.calculate_hash
Transaction_calculate_hash(from_address, to_address, amount, timestamp, data) ==
    sha256(from_address \o to_address \o FloatStr(amount) \o timestamp
           \o json_dumps(data))

\* Transaction.__init__
Transaction(from_address, to_address, amount, data) ==
    [from_address |-> from_address,
     to_address   |-> to_address,
     amount       |-> amount,
     timestamp    |-> UtcNowIso,
     data         |-> data,
     tx_hash      |-> Transaction_calculate_hash(from_address, to_address, amount,
                                      UtcNowIso, data)]

----------------------------------------------------------------------------
\* Block (core/blockchain.py).

\* a padding that repeats the first hash instead of the last
MerklePad_First(tx_hashes) ==
    IF Len(tx_hashes) % 2 = 1
    THEN Append(tx_hashes, tx_hashes[1])
    ELSE tx_hashes

\* One round of the while loop of calculate_merkle_root: pad to even length,
\* then hash adjacent pairs.
MerklePad(tx_hashes) ==
    IF Len(tx_hashes) % 2 = 1
    THEN Append(tx_hashes, tx_hashes[Len(tx_hashes)])
    ELSE tx_hashes

\* combined = tx_hashes[i] + tx_hashes[i + 1]; sha256(combined)
PairHash(left, right) == sha256(left \o right)

MerklePairs(tx_hashes) ==
    [i \in 1..(Len(tx_hashes) \div 2) |->
        PairHash(tx_hashes[2 * i - 1], tx_hashes[2 * i])]

RECURSIVE MerkleLoop(_)
MerkleLoop(tx_hashes) ==
    IF Len(tx_hashes) > 1
    THEN MerkleLoop(MerklePairs(MerklePad(tx_hashes)))
    ELSE tx_hashes[1]

\* Block.calculate_merkle_root
calculate_merkle_root(transactions) ==
    IF transactions = <<>>
    THEN sha256("")
    ELSE MerkleLoop([i \in 1..Len(transactions) |-> transactions[i].tx_hash])

\* Block.calculate_hash, on the block's current fields
Block_calculate_hash(b) ==
    sha256(ToString(b.index) \o b.timestamp \o b.previous_hash \o b.merkle_root
           \o b.astronomical_hash \o ToString(b.nonce))

\* a constructor that does not take the fingerprint from the snapshot
Block_NoFingerprint(index, transactions, previous_hash, astronomical_data) ==
    LET b0 == [index             |-> index,
               timestamp         |-> UtcNowIso,
               transactions      |-> transactions,
               previous_hash     |-> previous_hash,
               astronomical_data |-> astronomical_data,
               astronomical_hash |-> "",
               merkle_root       |-> calculate_merkle_root(transactions),
               nonce             |-> 0,
               hash              |-> ""]
    IN  [b0 EXCEPT !.hash = Block_calculate_hash(b0)]

\* Block.__init__
Block(index, transactions, previous_hash, astronomical_data) ==
    LET b0 == [index             |-> index,
               timestamp         |-> UtcNowIso,
               transactions      |-> transactions,
               previous_hash     |-> previous_hash,
               astronomical_data |-> astronomical_data,
               astronomical_hash |-> DictGet(astronomical_data,
                                             "astronomical_hash", ""),
               merkle_root       |-> calculate_merkle_root(transactions),
               nonce             |-> 0,
               hash              |-> ""]
    IN  [b0 EXCEPT !.hash = Block_calculate_hash(b0)]

\* Transaction.to_dict
Transaction_to_dict(tx) ==
    [from |-> tx.from_address, to |-> tx.to_address, amount |-> tx.amount,
     timestamp |-> tx.timestamp, data |-> tx.data, hash |-> tx.tx_hash]

\* Block.to_dict
Block_to_dict(b) ==
    [index             |-> b.index,
     timestamp         |-> b.timestamp,
     previous_hash     |-> b.previous_hash,
     transactions      |-> [i \in 1..Len(b.transactions) |->
                                Transaction_to_dict(b.transactions[i])],
     astronomical_data |-> b.astronomical_data,
     astronomical_hash |-> b.astronomical_hash,
     merkle_root       |-> b.merkle_root,
     nonce             |-> b.nonce,
     hash              |-> b.hash]

----------------------------------------------------------------------------
\* ProofOfAstronomy (consensus/proof_of_astronomy.py).
\*
\* A reading is a record: numeric says whether float() accepts it, value is
\* an integer count of its last kept decimal place times ten: latitude and
\* longitude in thousandths of a degree, flux in units of 0.00001.  A
\* snapshot timestamp is the parsed form of its text: wf says whether
\* datetime.fromisoformat accepts it, text is the raw text otherwise; offset
\* is the text after the seconds ("", "Z", "+00:00", "+02:00").

\* a reading float() accepts
Num(v) == [numeric |-> TRUE, value |-> v]

\* a reading float() rejects with ValueError, the text "n/a"
NotANumber == [numeric |-> FALSE, value |-> 0]

\* a rounding that drops the last decimal place
RoundTenth_Floor(v) == Abs(v) \div 10

\* round(float(x), n) for a reading v that has one decimal place more than
\* n: the magnitude of v / 10 rounded to the nearest integer.  The inputs of
\* the model do not end in the digit 5, where the result of round() depends
\* on the binary expansion of x.
RoundTenth(v) ==
    LET m == Abs(v)
        q == m \div 10
        r == m % 10
    IN  IF r < 5 THEN q
        ELSE IF r > 5 THEN q + 1
        ELSE IF q % 2 = 0 THEN q ELSE q + 1

RECURSIVE ZeroPad(_, _)
ZeroPad(n, width) ==
    IF width <= 1 THEN ToString(n)
    ELSE IF n < Pow(10, width - 1) THEN "0" \o ZeroPad(n, width - 1)
    ELSE ToString(n)

\* the digits after the point of repr(float): trailing zeros dropped, one kept
RECURSIVE FracStr(_, _)
FracStr(n, digits) ==
    IF digits = 1 THEN ToString(n)
    ELSE IF n % 10 = 0 THEN FracStr(n \div 10, digits - 1)
    ELSE ZeroPad(n, digits)

\* f"{round(float(x), digits)}" for the reading v; the sign of a float is kept
\* when it rounds to zero ("-0.0")
RoundedStr(v, digits) ==
    LET m == RoundTenth(v)
        p == Pow(10, digits)
    IN  (IF v < 0 THEN "-" ELSE "") \o ToString(m \div p) \o "."
        \o FracStr(m % p, digits)

\* a join that forgets the separator
RECURSIVE JoinUnderscore_Concat(_)
JoinUnderscore_Concat(components) ==
    IF components = <<>> THEN ""
    ELSE components[1] \o JoinUnderscore_Concat(Tail(components))

\* "_".join(components)
RECURSIVE JoinUnderscore(_)
JoinUnderscore(components) ==
    IF components = <<>> THEN ""
    ELSE IF Len(components) = 1 THEN components[1]
    ELSE components[1] \o "_" \o JoinUnderscore(Tail(components))

\* a time component that keeps the minute as it is
TimeComponent_NoFloor(timestamp) ==
    IF timestamp.wf
    THEN "time_" \o timestamp.date \o "T" \o ZeroPad(timestamp.hour, 2) \o ":"
         \o ZeroPad(timestamp.minute, 2) \o ":00"
         \o (IF timestamp.offset = "Z" THEN "" ELSE timestamp.offset)
    ELSE "time_" \o timestamp.text

\* the time component: a "Z" is dropped before parsing, the minute floored
\* to its 10-minute bucket, seconds and microseconds zeroed; the raw text
\* when it does not parse
TimeComponent(timestamp) ==
    IF timestamp.wf
    THEN "time_" \o timestamp.date \o "T" \o ZeroPad(timestamp.hour, 2) \o ":"
         \o ZeroPad((timestamp.minute \div 10) * 10, 2) \o ":00"
         \o (IF timestamp.offset = "Z" THEN "" ELSE timestamp.offset)
    ELSE "time_" \o timestamp.text

\* whether `if timestamp:` is taken: the key is present and its text not empty
TimestampGiven(astronomical_data) ==
    /\ "timestamp" \in DOMAIN astronomical_data
    /\ (astronomical_data["timestamp"].wf
        \/ astronomical_data["timestamp"].text # "")

\* ProofOfAstronomy.calculate_astronomical_consensus: [raised, value]; raised
\* when a reading key is missing (KeyError) or float() rejects a reading
\* (ValueError)
calculate_astronomical_consensus(astronomical_data) ==
    LET sources == DictGet(astronomical_data, "sources", EmptyDict)
        hasIss == "iss" \in DOMAIN sources
        hasSolar == "solar" \in DOMAIN sources
        issOk == hasIss =>
                    /\ {"latitude", "longitude"} \subseteq DOMAIN sources["iss"]
                    /\ sources["iss"]["latitude"].numeric
                    /\ sources["iss"]["longitude"].numeric
        solarOk == hasSolar =>
                    /\ "flux" \in DOMAIN sources["solar"]
                    /\ sources["solar"]["flux"].numeric
        issPart == IF hasIss
                   THEN <<"iss_"
                          \o RoundedStr(sources["iss"]["latitude"].value, 2)
                          \o "_"
                          \o RoundedStr(sources["iss"]["longitude"].value, 2)>>
                   ELSE <<>>
        solarPart == IF hasSolar
                     THEN <<"solar_"
                            \o RoundedStr(sources["solar"]["flux"].value, 4)>>
                     ELSE <<>>
        timePart == IF TimestampGiven(astronomical_data)
                    THEN <<TimeComponent(astronomical_data["timestamp"])>>
                    ELSE <<>>
    IN  IF issOk /\ solarOk
        THEN [raised |-> FALSE,
              value  |-> sha256(JoinUnderscore(issPart \o solarPart \o timePart))]
        ELSE [raised |-> TRUE, value |-> ""]

\* ProofOfAstronomy.validate_astronomical_block
validate_astronomical_block(block_data) ==
    IF "astronomical_data" \notin DOMAIN block_data THEN FALSE
    ELSE LET astronomical_data == block_data["astronomical_data"]
             recalculated == calculate_astronomical_consensus(astronomical_data)
             claimed_hash == DictGet(astronomical_data, "astronomical_hash", "")
         IN  IF recalculated.raised THEN FALSE
             ELSE recalculated.value = claimed_hash

----------------------------------------------------------------------------
\* AstroBlockchain (core/blockchain.py).

\* the astronomical data of the genesis block
genesis_astronomical_data ==
    [type |-> "genesis",
     astronomical_hash |->
        "0000000000000000000000000000000000000000000000000000000000000000"]

\* a create_genesis_block that forgets the previous-hash sentinel
create_genesis_block_NoSentinel == Block(0, <<>>, "", genesis_astronomical_data)

\* AstroBlockchain.create_genesis_block: the block appended to the empty chain
create_genesis_block == Block(0, <<>>, "0", genesis_astronomical_data)

\* a get_latest_block that returns chain[0]
get_latest_block_First == chain[1]

\* AstroBlockchain.get_latest_block: chain[-1]
get_latest_block == chain[Len(chain)]

\* a validation that rechecks the genesis block's own hash as well
ChainValid_WithGenesis(c) ==
    /\ \A i \in 1..Len(c) : c[i].hash = Block_calculate_hash(c[i])
    /\ \A i \in 2..Len(c) : c[i].previous_hash = c[i - 1].hash

\* AstroBlockchain.is_chain_valid on a chain
ChainValid(c) ==
    \A i \in 2..Len(c) :
        /\ c[i].hash = Block_calculate_hash(c[i])
        /\ c[i].previous_hash = c[i - 1].hash

is_chain_valid == ChainValid(chain)

\* the body of the inner loop of get_balance for one transaction
BalanceStep(balance, transaction, address) ==
    LET afterFrom == IF transaction.from_address = address
                     THEN FSub(balance, transaction.amount)
                     ELSE balance
    IN  IF transaction.to_address = address
        THEN FAdd(afterFrom, transaction.amount)
        ELSE afterFrom

RECURSIVE BalanceOverTransactions(_, _, _)
BalanceOverTransactions(balance, transactions, address) ==
    IF transactions = <<>> THEN balance
    ELSE BalanceOverTransactions(
             BalanceStep(balance, Head(transactions), address),
             Tail(transactions), address)

RECURSIVE BalanceOverBlocks(_, _, _)
BalanceOverBlocks(balance, blocks, address) ==
    IF blocks = <<>> THEN balance
    ELSE BalanceOverBlocks(
             BalanceOverTransactions(balance, Head(blocks).transactions, address),
             Tail(blocks), address)

\* AstroBlockchain.get_balance
get_balance(address) == BalanceOverBlocks(0, chain, address)

\* a report whose length leaves the genesis block out
get_chain_info_AfterGenesis ==
    [length               |-> Len(chain) - 1,
     latest_block         |-> Block_to_dict(get_latest_block),
     pending_transactions |-> Len(pending_transactions),
     is_valid             |-> is_chain_valid]

\* AstroBlockchain.get_chain_info
get_chain_info ==
    [length               |-> Len(chain),
     latest_block         |-> Block_to_dict(get_latest_block),
     pending_transactions |-> Len(pending_transactions),
     is_valid             |-> is_chain_valid]

----------------------------------------------------------------------------
\* Inputs.

\* the transactions of the demonstration (astrochain_demo.py) and a transfer
\* of an address to itself: <<from, to, amount, data>>, the amounts being the
\* floats 100.0, 50.0 and 25.0
TxInputs ==
    { <<"astro_alice", "astro_bob", 100, [memo |-> "First AstroChain payment!"]>>,
      <<"astro_bob", "astro_charlie", 50, [memo |-> "Cosmic transfer"]>>,
      <<"astro_charlie", "astro_alice", 25, EmptyDict>>,
      <<"astro_alice", "astro_alice", 25, EmptyDict>> }

Addresses == {"astro_alice", "astro_bob", "astro_charlie"}

\* the timestamp text "2026-11-01T07:41:05"
SnapshotTime ==
    [wf |-> TRUE, text |-> "", date |-> "2026-11-01", hour |-> 7,
     minute |-> 41, second |-> 5, offset |-> ""]

\* the mock snapshot of the demonstration: iss 45.123, -123.456; flux 0.2345
MockSnapshot ==
    [timestamp |-> SnapshotTime,
     sources   |-> [iss   |-> [latitude  |-> Num(45123),
                               longitude |-> Num(-123456)],
                    solar |-> [flux |-> Num(23450)]]]

\* the snapshot of the self-test of blockchain.py: iss 36.39, 173.77; flux
\* 0.18; it carries a fingerprint written by hand
SelfTestSnapshot ==
    [timestamp |-> SnapshotTime,
     sources   |-> [iss   |-> [latitude  |-> Num(36390),
                               longitude |-> Num(173770)],
                    solar |-> [flux |-> Num(18000)]],
     astronomical_hash |->
        "159fc15a65352da3d352b47ca6032bd34aebdd71c19187dee7c702ae1775cb12"]

\* demonstrate_astronomical_consensus: the snapshot with its fingerprint
\* stored into it
Sealed(snapshot) ==
    DictSet(snapshot, "astronomical_hash",
            calculate_astronomical_consensus(snapshot).value)

SnapshotInputs == {Sealed(MockSnapshot), SelfTestSnapshot, MockSnapshot}

----------------------------------------------------------------------------
\* State machine of the ledger, one call at a time.

CbIdle == [pc |-> "idle"]
MkIdle == [pc |-> "idle"]
\* no ProofOfAstronomy object is in use
GateIdle == [pc |-> "idle"]

\* the transactions handed to add_transaction so far, in order
RECURSIVE AddedIn(_)
AddedIn(l) ==
    IF l = <<>> THEN <<>>
    ELSE IF Head(l).op = "add_transaction"
         THEN <<Head(l).transaction>> \o AddedIn(Tail(l))
         ELSE AddedIn(Tail(l))

Added == AddedIn(log)

Init ==
    /\ clock = 0
    /\ chain = <<create_genesis_block>>
    /\ pending_transactions = <<>>
    /\ log = <<>>
    /\ cb = CbIdle
    /\ mk = MkIdle
    /\ gate = GateIdle

\* the wall clock advances
Tick ==
    /\ clock < MaxClock
    /\ clock' = clock + 1
    /\ UNCHANGED <<chain, pending_transactions, log, cb, mk, gate>>

\* AstroBlockchain.add_transaction
add_transaction(transaction) ==
    /\ Len(log) < MaxCalls
    /\ pending_transactions' = Append(pending_transactions, transaction)
    /\ log' = Append(log, [op |-> "add_transaction", transaction |-> transaction])
    /\ UNCHANGED <<chain, clock, cb, mk, gate>>

\* an index that counts from one
NextIndex_OffByOne == Len(chain) + 1

\* index = len(self.chain)
NextIndex == Len(chain)

\* previous_hash = self.get_latest_block().hash
PreviousHash == get_latest_block.hash

\* a drain that takes the pool newest first
DrainedTransactions_Reversed ==
    [i \in 1..Len(pending_transactions) |->
        pending_transactions[Len(pending_transactions) + 1 - i]]

\* transactions = self.pending_transactions.copy()
DrainedTransactions == pending_transactions

\* a create_block that stores the nonce of the search just made into the
\* block and hashes the block with it
create_block_SearchNonce(astronomical_data) ==
    /\ Len(log) < MaxCalls
    /\ cb.pc = "idle"
    /\ LET index == NextIndex
           previous_hash == PreviousHash
           transactions == DrainedTransactions
           b == Block(index, transactions, previous_hash, astronomical_data)
           nonce == IF gate.call.op = "find_valid_nonce"
                    THEN gate.call.ret.nonce ELSE 0
           new_block == [b EXCEPT
                            !.nonce = nonce,
                            !.hash = Block_calculate_hash(
                                         [b EXCEPT !.nonce = nonce])]
       IN  /\ pending_transactions' = <<>>
           /\ chain' = Append(chain, new_block)
    /\ log' = Append(log, [op |-> "create_block",
                           astronomical_data |-> astronomical_data])
    /\ UNCHANGED <<clock, cb, mk, gate>>

\* AstroBlockchain.create_block, run without interruption
create_block(astronomical_data) ==
    /\ Len(log) < MaxCalls
    /\ cb.pc = "idle"
    /\ LET index == NextIndex
           previous_hash == PreviousHash
           transactions == DrainedTransactions
           new_block == Block(index, transactions, previous_hash,
                              astronomical_data)
       IN  /\ pending_transactions' = <<>>
           /\ chain' = Append(chain, new_block)
    /\ log' = Append(log, [op |-> "create_block",
                           astronomical_data |-> astronomical_data])
    /\ UNCHANGED <<clock, cb, mk, gate>>

\* a client builds a transaction and submits it
Submit ==
    \E i \in TxInputs :
        add_transaction(Transaction(i[1], i[2], i[3], i[4]))

\* a block is created for a snapshot
Mint == \E s \in SnapshotInputs : create_block(s)

Next == Submit \/ Mint \/ Tick

Spec == Init /\ [][Next]_vars

----------------------------------------------------------------------------
\* The ledger with a client that writes to the attributes of a stored block
\* (Python objects are mutable: chain[i].field = value), once per behaviour.

BlockFields ==
    {"index", "timestamp", "transactions", "previous_hash", "astronomical_data",
     "astronomical_hash", "merkle_root", "nonce", "hash"}

\* the value written to a field
TamperValue(field) ==
    CASE field = "index" -> 7
      [] field = "nonce" -> 1
      [] field = "transactions" -> <<>>
      [] field = "astronomical_data" -> EmptyDict
      [] field = "timestamp" -> "1999-12-31T23:59:59"
      [] OTHER -> "deadbeef"

Tampered == \E k \in 1..Len(log) : log[k].op = "tamper"

\* chain[i].field = value, nothing recomputed
TamperBlock(i, field, value) ==
    /\ ~Tampered
    /\ Len(log) < MaxCalls
    /\ cb.pc = "idle"
    /\ i \in 1..Len(chain)
    /\ chain[i][field] # value
    /\ chain' = [chain EXCEPT ![i][field] = value]
    /\ log' = Append(log, [op |-> "tamper", block |-> i, field |-> field])
    /\ UNCHANGED <<pending_transactions, clock, cb, mk, gate>>

\* chain[i].transactions[j].amount = value, nothing recomputed
TamperAmount(i, j, value) ==
    /\ ~Tampered
    /\ Len(log) < MaxCalls
    /\ cb.pc = "idle"
    /\ i \in 1..Len(chain)
    /\ j \in 1..Len(chain[i].transactions)
    /\ chain[i].transactions[j].amount # value
    /\ chain' = [chain EXCEPT ![i].transactions[j].amount = value]
    /\ log' = Append(log, [op |-> "tamper", block |-> i, field |-> "amount"])
    /\ UNCHANGED <<pending_transactions, clock, cb, mk, gate>>

TamperField ==
    \E i \in 1..Len(chain) : \E field \in BlockFields :
        TamperBlock(i, field, TamperValue(field))

TamperTransaction ==
    \E i \in 1..Len(chain) : \E j \in 1..Len(chain[i].transactions) :
        TamperAmount(i, j, 999)

\* The wall clock stands still here: every timestamp is the one of the
\* construction, and the validation compares stored fields only.
NextTamper == Submit \/ Mint \/ TamperField \/ TamperTransaction

SpecTamper == Init /\ [][NextTamper]_vars

----------------------------------------------------------------------------
\* The ledger with one thread inside create_block, a statement at a time,
\* while another thread calls add_transaction.  No lock is taken by either
\* method; list.append and list.copy are single steps of the interpreter.

\* line 113: index = len(self.chain)
CbCall(astronomical_data) ==
    /\ cb.pc = "idle"
    /\ Len(log) < MaxCalls
    /\ cb' = [pc |-> "L114", astronomical_data |-> astronomical_data,
              index |-> NextIndex]
    /\ log' = Append(log, [op |-> "create_block",
                           astronomical_data |-> astronomical_data])
    /\ UNCHANGED <<chain, pending_transactions, clock, mk, gate>>

\* line 114: previous_hash = self.get_latest_block().hash
CbPreviousHash ==
    /\ cb.pc = "L114"
    /\ cb' = [pc |-> "L117", astronomical_data |-> cb.astronomical_data,
              index |-> cb.index, previous_hash |-> PreviousHash]
    /\ UNCHANGED <<chain, pending_transactions, clock, log, mk, gate>>

\* line 117: transactions = self.pending_transactions.copy()
CbCopy ==
    /\ cb.pc = "L117"
    /\ cb' = [pc |-> "L118", astronomical_data |-> cb.astronomical_data,
              index |-> cb.index, previous_hash |-> cb.previous_hash,
              transactions |-> DrainedTransactions]
    /\ UNCHANGED <<chain, pending_transactions, clock, log, mk, gate>>

\* line 118: self.pending_transactions = []
CbClear ==
    /\ cb.pc = "L118"
    /\ pending_transactions' = <<>>
    /\ cb' = [cb EXCEPT !.pc = "L121"]
    /\ UNCHANGED <<chain, clock, log, mk, gate>>

\* line 121: new_block = Block(index, transactions, previous_hash, ...)
CbConstruct ==
    /\ cb.pc = "L121"
    /\ cb' = [pc |-> "L124",
              new_block |-> Block(cb.index, cb.transactions, cb.previous_hash,
                                  cb.astronomical_data)]
    /\ UNCHANGED <<chain, pending_transactions, clock, log, mk, gate>>

\* lines 124-126: self.chain.append(new_block); return new_block
CbAppend ==
    /\ cb.pc = "L124"
    /\ chain' = Append(chain, cb.new_block)
    /\ cb' = CbIdle
    /\ UNCHANGED <<pending_transactions, clock, log, mk, gate>>

MintCall == \E s \in SnapshotInputs : CbCall(s)

NextConc ==
    \/ Submit \/ Tick \/ MintCall
    \/ CbPreviousHash \/ CbCopy \/ CbClear \/ CbConstruct \/ CbAppend

SpecConc == Init /\ [][NextConc]_vars

----------------------------------------------------------------------------
\* Block.calculate_merkle_root on its own, a statement at a time, for every
\* transaction list of up to MaxLen transactions.

\* the Transaction objects a list is drawn from
TxObjects == {Transaction(i[1], i[2], i[3], i[4]) : i \in TxInputs}

TxLists == UNION {[1..n -> TxObjects] : n \in 0..MaxLen}

InitMerkle ==
    /\ clock = 0
    /\ chain = <<create_genesis_block>>
    /\ pending_transactions = <<>>
    /\ log = <<>>
    /\ cb = CbIdle
    /\ gate = GateIdle
    /\ \E transactions \in TxLists :
          mk = [pc |-> "L50", transactions |-> transactions,
                tx_hashes |-> <<>>, new_hashes |-> <<>>, i |-> 0, ret |-> ""]

\* lines 50-53: the empty list returns sha256(""); otherwise collect tx_hash
MkEnter ==
    /\ mk.pc = "L50"
    /\ mk' = IF mk.transactions = <<>>
             THEN [mk EXCEPT !.pc = "done", !.ret = sha256("")]
             ELSE [mk EXCEPT !.pc = "L55",
                             !.tx_hashes = [k \in 1..Len(mk.transactions) |->
                                               mk.transactions[k].tx_hash]]
    /\ UNCHANGED <<chain, pending_transactions, clock, log, cb, gate>>

\* line 55: while len(tx_hashes) > 1, and line 66: return tx_hashes[0]
MkWhile ==
    /\ mk.pc = "L55"
    /\ mk' = IF Len(mk.tx_hashes) > 1
             THEN [mk EXCEPT !.pc = "L56"]
             ELSE [mk EXCEPT !.pc = "done", !.ret = mk.tx_hashes[1]]
    /\ UNCHANGED <<chain, pending_transactions, clock, log, cb, gate>>

\* lines 56-59: duplicate the last hash when the count is odd; new_hashes = []
MkPad ==
    /\ mk.pc = "L56"
    /\ mk' = [mk EXCEPT !.pc = "L60", !.tx_hashes = MerklePad(mk.tx_hashes),
                        !.new_hashes = <<>>, !.i = 0]
    /\ UNCHANGED <<chain, pending_transactions, clock, log, cb, gate>>

\* lines 60-62: one iteration of for i in range(0, len(tx_hashes), 2)
MkPair ==
    /\ mk.pc = "L60"
    /\ mk.i < Len(mk.tx_hashes)
    /\ mk' = [mk EXCEPT !.new_hashes =
                            Append(mk.new_hashes,
                                   PairHash(mk.tx_hashes[mk.i + 1],
                                            mk.tx_hashes[mk.i + 2])),
                        !.i = mk.i + 2]
    /\ UNCHANGED <<chain, pending_transactions, clock, log, cb, gate>>

\* line 64: tx_hashes = new_hashes, when the for loop is exhausted
MkLevel ==
    /\ mk.pc = "L60"
    /\ mk.i >= Len(mk.tx_hashes)
    /\ mk' = [mk EXCEPT !.pc = "L55", !.tx_hashes = mk.new_hashes]
    /\ UNCHANGED <<chain, pending_transactions, clock, log, cb, gate>>

NextMerkle == MkEnter \/ MkWhile \/ MkPad \/ MkPair \/ MkLevel

\* the call is a sequential computation: it keeps running until it returns
SpecMerkle == InitMerkle /\ [][NextMerkle]_vars /\ WF_vars(NextMerkle)

----------------------------------------------------------------------------
\* The ProofOfAstronomy gate on its own: can_create_block, and
\* find_valid_nonce a statement at a time.
\*
\* The digits of a digest are not computed.  Which digests begin with the
\* difficulty target is fixed when a behaviour starts and may be any
\* assignment over the digests the calls can form (gate.zeros): sha256 is a
\* fixed function, of which nothing else is assumed.

\* block_interval_minutes: the default of __init__, and the demonstration's
BlockIntervals == {10, 1}

\* self.node_id: sixteen hex digits of the digest of the construction time
NodeIds == {"3f2a9c0d41b7e685", "a1b2c3d4e5f60718"}

\* ProofOfAstronomy.__init__
ProofOfAstronomy(block_interval_minutes, node_id) ==
    [block_interval    |-> block_interval_minutes,
     last_block_time   |-> "None",
     difficulty_target |-> "0000",
     node_id           |-> node_id]

\* the fingerprints handed to the gate: of the mock snapshot, of the empty one
Fingerprints ==
    {calculate_astronomical_consensus(MockSnapshot).value,
     calculate_astronomical_consensus(EmptyDict).value}

\* max_attempts of the calls of find_valid_nonce
AttemptBudgets == 0..MaxAttempts

\* f"{consensus_hash}_{node_id}" hashed
NodeHash(consensus_hash, node_id) == sha256(consensus_hash \o "_" \o node_id)

\* the digests the calls on a gate of identity own_id can form
Digests(own_id) ==
    {NodeHash(c, n) : c \in Fingerprints, n \in NodeIds}
    \cup {sha256(c \o "_" \o own_id \o "_" \o ToString(k)) :
              c \in Fingerprints, k \in 0..(MaxAttempts - 1)}

\* digest.startswith(self.difficulty_target)
StartsWithTarget(digest) == digest \in gate.zeros

\* a can_create_block that hashes the gate's own identity, not its argument
can_create_block_OwnId(consensus_hash, node_id) ==
    StartsWithTarget(NodeHash(consensus_hash, gate.obj.node_id))

\* ProofOfAstronomy.can_create_block
can_create_block(consensus_hash, node_id) ==
    StartsWithTarget(NodeHash(consensus_hash, node_id))

\* a candidate hash that leaves the nonce out
CandidateHash_NoNonce(consensus_hash, nonce) ==
    sha256(consensus_hash \o "_" \o gate.obj.node_id)

\* candidate_hash of find_valid_nonce (line 88)
CandidateHash(consensus_hash, nonce) ==
    sha256(consensus_hash \o "_" \o gate.obj.node_id \o "_" \o ToString(nonce))

\* no call made yet
NoCall == [op |-> "none", pc |-> "done"]

\* the call that came right before a call of can_create_block, when it was
\* one of can_create_block too
PrevAfter ==
    IF gate.call.op = "can_create_block" THEN gate.call ELSE NoCall

InitGate ==
    /\ clock = 0
    /\ chain = <<create_genesis_block>>
    /\ pending_transactions = <<>>
    /\ log = <<>>
    /\ cb = CbIdle
    /\ mk = MkIdle
    /\ \E node_id \in NodeIds : \E zeros \in SUBSET Digests(node_id) :
          gate = [obj   |-> ProofOfAstronomy(10, node_id),
                  zeros |-> zeros,
                  call  |-> NoCall,
                  prev  |-> NoCall]

\* a call of can_create_block returns
CanCreateBlockCall ==
    /\ gate.call.pc = "done"
    /\ \E consensus_hash \in Fingerprints : \E node_id \in NodeIds :
          gate' = [gate EXCEPT
                      !.prev = PrevAfter,
                      !.call = [op |-> "can_create_block", pc |-> "done",
                                consensus_hash |-> consensus_hash,
                                node_id |-> node_id,
                                ret |-> can_create_block(consensus_hash,
                                                         node_id)]]
    /\ UNCHANGED <<chain, pending_transactions, clock, log, cb, mk>>

\* find_valid_nonce is called: the for loop starts at nonce 0
FvCall ==
    /\ gate.call.pc = "done"
    /\ \E consensus_hash \in Fingerprints : \E max_attempts \in AttemptBudgets :
          gate' = [gate EXCEPT
                      !.prev = NoCall,
                      !.call = [op |-> "find_valid_nonce", pc |-> "L87",
                                consensus_hash |-> consensus_hash,
                                max_attempts |-> max_attempts,
                                nonce |-> 0,
                                examined |-> <<>>,
                                ret |-> [found |-> FALSE, nonce |-> 0]]]
    /\ UNCHANGED <<chain, pending_transactions, clock, log, cb, mk>>

\* line 87: for nonce in range(max_attempts); line 93: return None
FvFor ==
    /\ gate.call.pc = "L87"
    /\ gate' = IF gate.call.nonce < gate.call.max_attempts
               THEN [gate EXCEPT !.call.pc = "L88"]
               ELSE [gate EXCEPT !.call.pc = "done",
                                 !.call.ret = [found |-> FALSE, nonce |-> 0]]
    /\ UNCHANGED <<chain, pending_transactions, clock, log, cb, mk>>

\* lines 88-91: hash the candidate; return nonce when it has the prefix
FvTry ==
    /\ gate.call.pc = "L88"
    /\ LET nonce == gate.call.nonce
           candidate_hash == CandidateHash(gate.call.consensus_hash, nonce)
       IN  gate' = IF StartsWithTarget(candidate_hash)
                   THEN [gate EXCEPT
                            !.call.pc = "done",
                            !.call.examined = Append(gate.call.examined, nonce),
                            !.call.ret = [found |-> TRUE, nonce |-> nonce]]
                   ELSE [gate EXCEPT
                            !.call.pc = "L87",
                            !.call.examined = Append(gate.call.examined, nonce),
                            !.call.nonce = nonce + 1]
    /\ UNCHANGED <<chain, pending_transactions, clock, log, cb, mk>>

NextGate == CanCreateBlockCall \/ FvCall \/ FvFor \/ FvTry

\* a call that started keeps running until it returns
SpecGate == InitGate /\ [][NextGate]_vars /\ WF_vars(FvFor \/ FvTry)

----------------------------------------------------------------------------
\* calculate_astronomical_consensus on its own: two calls, each on a snapshot
\* put together from a timestamp, an iss source and a solar source, any of
\* which may be absent or malformed.

\* "2026-11-01T<hour>:<minute>:<second>.<microsecond><offset>"
IsoTime(hour, minute, second, microsecond, offset) ==
    [wf |-> TRUE, text |-> "", date |-> "2026-11-01", hour |-> hour,
     minute |-> minute, second |-> second, microsecond |-> microsecond,
     offset |-> offset]

\* a timestamp text datetime.fromisoformat rejects
RawTime(text) == [wf |-> FALSE, text |-> text]

\* a part of a snapshot that is left out, and one that is there
Absent == [present |-> FALSE]
Present(value) == [present |-> TRUE, value |-> value]

\* the timestamps of the snapshots
TimeInputs ==
    {Absent,
     Present(RawTime("")),
     Present(RawTime("yesterday")),
     Present(IsoTime(7, 41, 5, 0, "")),
     Present(IsoTime(7, 49, 59, 999999, "")),
     Present(IsoTime(7, 50, 0, 0, "")),
     Present(IsoTime(8, 41, 5, 0, "")),
     Present(IsoTime(7, 41, 5, 0, "Z")),
     Present(IsoTime(7, 41, 5, 0, "+00:00"))}

\* the entries of sources["iss"]
IssInputs ==
    {Absent,
     Present([longitude |-> Num(-123456)]),
     Present([latitude |-> Num(45128)]),
     Present([latitude |-> NotANumber, longitude |-> Num(-123456)]),
     Present([latitude |-> Num(45128), longitude |-> Num(-123456)]),
     Present([latitude |-> Num(45131), longitude |-> Num(-123456)]),
     Present([latitude |-> Num(45124), longitude |-> Num(-123456)]),
     Present([latitude |-> Num(45128), longitude |-> Num(-123454)]),
     Present([latitude |-> Num(1), longitude |-> Num(-123456)]),
     Present([latitude |-> Num(-1), longitude |-> Num(-123456)])}

\* the entries of sources["solar"]
SolarInputs ==
    {Absent,
     Present(EmptyDict),
     Present([flux |-> Num(23450)]),
     Present([flux |-> Num(23452)]),
     Present([flux |-> Num(23456)])}

\* the dict of the sources that are present
SourcesOf(iss, solar) ==
    LET withIss == IF iss.present THEN DictSet(EmptyDict, "iss", iss.value)
                   ELSE EmptyDict
    IN  IF solar.present THEN DictSet(withIss, "solar", solar.value)
        ELSE withIss

\* the snapshot; without sources the key "sources" is left out
SnapshotOf(timestamp, iss, solar) ==
    LET withSources == IF iss.present \/ solar.present
                       THEN DictSet(EmptyDict, "sources", SourcesOf(iss, solar))
                       ELSE EmptyDict
    IN  IF timestamp.present
        THEN DictSet(withSources, "timestamp", timestamp.value)
        ELSE withSources

SnapshotSpace ==
    {SnapshotOf(t, i, s) : t \in TimeInputs, i \in IssInputs, s \in SolarInputs}

InitFingerprint ==
    /\ clock = 0
    /\ chain = <<create_genesis_block>>
    /\ pending_transactions = <<>>
    /\ log = <<>>
    /\ cb = CbIdle
    /\ mk = MkIdle
    /\ \E node_id \in {"3f2a9c0d41b7e685"} :
          gate = [obj   |-> ProofOfAstronomy(10, node_id),
                  zeros |-> {},
                  call  |-> NoCall,
                  prev  |-> NoCall]

\* a call of calculate_astronomical_consensus returns or raises
DeriveCall ==
    /\ gate.prev.op = "none"
    /\ \E astronomical_data \in SnapshotSpace :
          LET result == calculate_astronomical_consensus(astronomical_data)
          IN  gate' = [gate EXCEPT
                          !.prev = gate.call,
                          !.call = [op |-> "calculate_astronomical_consensus",
                                    pc |-> "done",
                                    astronomical_data |-> astronomical_data,
                                    raised |-> result.raised,
                                    ret |-> result.value]]
    /\ UNCHANGED <<chain, pending_transactions, clock, log, cb, mk>>

NextFingerprint == DeriveCall

SpecFingerprint == InitFingerprint /\ [][NextFingerprint]_vars

----------------------------------------------------------------------------
\* is_time_for_new_block on its own, while the wall clock advances.  Every
\* timestamp is of the day of the wall clock, 2026-11-01.

\* datetime.utcnow(), in seconds since midnight: 07:40 plus the clock's minutes
UtcNowSeconds == ((7 * 60) + 40 + clock) * 60

\* a parsed time of day without its offset, in whole seconds since midnight
SecondsOf(timestamp) ==
    ((timestamp.hour * 60) + timestamp.minute) * 60 + timestamp.second

\* (current_time - last_time) >= self.block_interval, for a naive last_time;
\* microseconds of last_time shorten the difference by less than a second
IntervalElapsed(timestamp, block_interval) ==
    UtcNowSeconds - SecondsOf(timestamp)
        >= block_interval * 60 + (IF timestamp.microsecond > 0 THEN 1 ELSE 0)

\* ProofOfAstronomy.is_time_for_new_block.  None and "" are RawTime("").  "Z"
\* and "+00:00" are cut off before parsing; with any other offset the parsed
\* time is aware, its subtraction from utcnow() raises TypeError, and the
\* bare except returns True
is_time_for_new_block(last_block_timestamp) ==
    IF ~last_block_timestamp.wf /\ last_block_timestamp.text = "" THEN TRUE
    ELSE IF ~last_block_timestamp.wf THEN TRUE
    ELSE IF last_block_timestamp.offset \notin {"", "Z", "+00:00"} THEN TRUE
    ELSE IntervalElapsed(last_block_timestamp, gate.obj.block_interval)

\* the timestamps handed to is_time_for_new_block
LastBlockTimes ==
    {RawTime(""),
     RawTime("yesterday"),
     IsoTime(7, 30, 0, 0, ""),
     IsoTime(7, 30, 0, 500000, ""),
     IsoTime(7, 31, 0, 0, ""),
     IsoTime(7, 40, 0, 0, ""),
     IsoTime(7, 50, 0, 0, ""),
     IsoTime(7, 39, 30, 0, "Z"),
     IsoTime(7, 30, 30, 0, "+00:00"),
     IsoTime(9, 39, 0, 0, "+02:00"),
     IsoTime(9, 29, 0, 0, "+02:00"),
     IsoTime(2, 39, 0, 0, "-05:00")}

InitTime ==
    /\ clock = 0
    /\ chain = <<create_genesis_block>>
    /\ pending_transactions = <<>>
    /\ log = <<>>
    /\ cb = CbIdle
    /\ mk = MkIdle
    /\ \E block_interval_minutes \in BlockIntervals : \E node_id \in NodeIds :
          gate = [obj   |-> ProofOfAstronomy(block_interval_minutes, node_id),
                  zeros |-> {},
                  call  |-> NoCall,
                  prev  |-> NoCall]

\* a call of is_time_for_new_block returns
IsTimeCall ==
    /\ \E last_block_timestamp \in LastBlockTimes :
          gate' = [gate EXCEPT
                      !.call = [op |-> "is_time_for_new_block", pc |-> "done",
                                last_block_timestamp |-> last_block_timestamp,
                                now |-> UtcNowSeconds,
                                ret |-> is_time_for_new_block(
                                            last_block_timestamp)]]
    /\ UNCHANGED <<chain, pending_transactions, clock, log, cb, mk>>

NextTime == IsTimeCall \/ Tick

SpecTime == InitTime /\ [][NextTime]_vars

----------------------------------------------------------------------------
\* The round of the demonstration that goes through the gate and the ledger
\* (run_full_demo): transactions are submitted, a fingerprint is derived and
\* stored into the snapshot, blocks are created from that snapshot, the last
\* block is serialized and validated.

\* the snapshots of a round: every way of leaving a part out, an unparseable
\* timestamp, an iss source without latitude, and the two of the repository
RoundSnapshots ==
    {SnapshotOf(t, i, s) :
        t \in {Absent, Present(IsoTime(7, 41, 5, 0, "")),
               Present(RawTime("yesterday"))},
        i \in {Absent,
               Present([latitude |-> Num(45128), longitude |-> Num(-123456)]),
               Present([longitude |-> Num(-123456)])},
        s \in {Absent, Present([flux |-> Num(23450)])}}
    \cup {MockSnapshot, SelfTestSnapshot}

InitRound ==
    /\ clock = 0
    /\ chain = <<create_genesis_block>>
    /\ pending_transactions = <<>>
    /\ log = <<>>
    /\ cb = CbIdle
    /\ mk = MkIdle
    /\ \E node_id \in {"3f2a9c0d41b7e685"} :
          gate = [obj   |-> ProofOfAstronomy(1, node_id),
                  zeros |-> {},
                  call  |-> NoCall,
                  prev  |-> NoCall]

\* demonstrate_astronomical_consensus, lines 65-66: the fingerprint is
\* derived and stored into the snapshot; an exception ends the round
SealCall ==
    /\ gate.call.op = "none"
    /\ \E snapshot \in RoundSnapshots :
          LET result == calculate_astronomical_consensus(snapshot)
          IN  gate' = [gate EXCEPT
                          !.call = [op |-> "calculate_astronomical_consensus",
                                    pc |-> "done",
                                    astronomical_data |->
                                        IF result.raised THEN snapshot
                                        ELSE Sealed(snapshot),
                                    raised |-> result.raised,
                                    ret |-> result.value]]
    /\ UNCHANGED <<chain, pending_transactions, clock, log, cb, mk>>

\* demonstrate_block_creation: create_block on the snapshot of the round
MintSealed ==
    /\ gate.call.op = "calculate_astronomical_consensus"
    /\ ~gate.call.raised
    /\ create_block(gate.call.astronomical_data)

\* demonstrate_validation: validate_astronomical_block(block.to_dict()) on
\* the block just created
ValidateCall ==
    /\ gate.call.op = "calculate_astronomical_consensus"
    /\ Len(log) > 0
    /\ log[Len(log)].op = "create_block"
    /\ LET block_data == Block_to_dict(get_latest_block)
       IN  gate' = [gate EXCEPT
                       !.prev = gate.call,
                       !.call = [op |-> "validate_astronomical_block",
                                 pc |-> "done",
                                 block_data |-> block_data,
                                 ret |-> validate_astronomical_block(
                                             block_data)]]
    /\ UNCHANGED <<chain, pending_transactions, clock, log, cb, mk>>

\* demonstrate_transaction_flow comes first in run_full_demo
SubmitFirst ==
    /\ gate.call.op = "none"
    /\ Submit

NextRound == SubmitFirst \/ SealCall \/ MintSealed \/ ValidateCall \/ Tick

SpecRound == InitRound /\ [][NextRound]_vars

----------------------------------------------------------------------------
\* run_full_demo a statement at a time (astrochain_demo.py): the three
\* transactions, the snapshot of the two sources, the fingerprint, the
\* admission by can_create_block or by the search of find_valid_nonce, the
\* creation and validation of the block, the final report.
\*
\* What the two sources answer and which of the digests of the round begin
\* with the difficulty target belong to the environment and are fixed when a
\* behaviour starts.  gate.demo holds the position in run_full_demo and its
\* local variables.

\* tx1, tx2, tx3 of demonstrate_transaction_flow
DemoTransactions ==
    << <<"astro_alice", "astro_bob", 100, [memo |-> "First AstroChain payment!"]>>,
       <<"astro_bob", "astro_charlie", 50, [memo |-> "Cosmic transfer"]>>,
       <<"astro_charlie", "astro_alice", 25, EmptyDict>> >>

\* what fetch_iss_position returns: None, or a position already converted by
\* float() (its own "timestamp" entry is not read by the gate)
IssAnswers ==
    {Absent, Present([latitude |-> Num(45128), longitude |-> Num(-123456)])}

\* what fetch_solar_activity returns: None, a measurement, or one whose flux
\* is not a number (latest.get("flux", 0) is handed on as it came)
SolarAnswers ==
    {Absent, Present([flux |-> Num(23450)]), Present([flux |-> NotANumber])}

\* current_time.isoformat() at a minute of the clock
NowTime(minutes) == IsoTime(7, 40 + minutes, 0, 0, "")

\* AstronomicalDataFetcher.get_astronomical_snapshot: the key "sources" is
\* always there, empty when both fetches failed
get_astronomical_snapshot(iss_data, solar_data, minutes) ==
    [timestamp |-> NowTime(minutes),
     sources   |-> SourcesOf(iss_data, solar_data)]

\* lines 52-62 of demonstrate_astronomical_consensus: the fetched snapshot,
\* or the mock data with the current time when no source answered
DemoSnapshot(iss_data, solar_data, minutes) ==
    LET astronomical_snapshot ==
            get_astronomical_snapshot(iss_data, solar_data, minutes)
    IN  IF astronomical_snapshot["sources"] = EmptyDict
        THEN [MockSnapshot EXCEPT !.timestamp = NowTime(minutes)]
        ELSE astronomical_snapshot

\* the digests a round on this answer can form: of can_create_block and of
\* the candidates of find_valid_nonce
DemoDigests(iss_data, solar_data, own_id) ==
    LET results == {calculate_astronomical_consensus(
                        DemoSnapshot(iss_data, solar_data, m)) :
                        m \in 0..MaxClock}
        hashes == {r.value : r \in {x \in results : ~x.raised}}
    IN  {NodeHash(c, own_id) : c \in hashes}
        \cup {sha256(c \o "_" \o own_id \o "_" \o ToString(k)) :
                  c \in hashes, k \in 0..(MaxAttempts - 1)}

\* the result of find_valid_nonce as the local variable nonce: not assigned,
\* None, or an integer
NonceUnset == [called |-> FALSE, found |-> FALSE, nonce |-> 0]
NonceOf(ret) == [called |-> TRUE, found |-> ret.found, nonce |-> ret.nonce]

\* `if nonce:` -- None and 0 are both false
Truthy(nonce) == nonce.found /\ nonce.nonce # 0

\* AstroChainDemo.__init__
InitDemo ==
    /\ clock = 0
    /\ chain = <<create_genesis_block>>
    /\ pending_transactions = <<>>
    /\ log = <<>>
    /\ cb = CbIdle
    /\ mk = MkIdle
    /\ \E node_id \in {"3f2a9c0d41b7e685"} :
       \E iss_data \in IssAnswers : \E solar_data \in SolarAnswers :
       \E zeros \in SUBSET DemoDigests(iss_data, solar_data, node_id) :
          gate = [obj   |-> ProofOfAstronomy(1, node_id),
                  zeros |-> zeros,
                  call  |-> NoCall,
                  prev  |-> NoCall,
                  demo  |-> [pc |-> "L146",
                             iss_data |-> iss_data,
                             solar_data |-> solar_data,
                             astronomical_snapshot |-> EmptyDict,
                             consensus_hash |-> "",
                             can_create_block |-> FALSE,
                             can_create |-> FALSE,
                             nonce |-> NonceUnset,
                             is_valid |-> FALSE,
                             final_state |-> EmptyDict,
                             raised |-> FALSE]]

\* demonstrate_transaction_flow: tx1, tx2 and tx3 are built and added
DemoAddTransaction ==
    /\ gate.demo.pc = "L146"
    /\ Len(log) < Len(DemoTransactions)
    /\ LET i == DemoTransactions[Len(log) + 1]
       IN  add_transaction(Transaction(i[1], i[2], i[3], i[4]))

\* lines 52-62: the snapshot is fetched, or replaced by the mock data
DemoFetch ==
    /\ gate.demo.pc = "L146"
    /\ Len(log) = Len(DemoTransactions)
    /\ gate' = [gate EXCEPT
                   !.demo.pc = "L65",
                   !.demo.astronomical_snapshot =
                       DemoSnapshot(gate.demo.iss_data, gate.demo.solar_data,
                                    clock)]
    /\ UNCHANGED <<chain, pending_transactions, clock, log, cb, mk>>

\* lines 65-66: the fingerprint is derived and stored into the snapshot; an
\* exception leaves for the handler of run_full_demo
DemoSeal ==
    /\ gate.demo.pc = "L65"
    /\ LET snapshot == gate.demo.astronomical_snapshot
           result == calculate_astronomical_consensus(snapshot)
       IN  gate' = IF result.raised
                   THEN [gate EXCEPT !.demo.pc = "L171"]
                   ELSE [gate EXCEPT
                            !.demo.pc = "L71",
                            !.demo.consensus_hash = result.value,
                            !.demo.astronomical_snapshot = Sealed(snapshot)]
    /\ UNCHANGED <<chain, pending_transactions, clock, log, cb, mk>>

\* lines 71-74: can_create_block on the node's own identity
DemoCanCreate ==
    /\ gate.demo.pc = "L71"
    /\ LET can_create == can_create_block(gate.demo.consensus_hash,
                                          gate.obj.node_id)
       IN  gate' = [gate EXCEPT
                       !.call = [op |-> "can_create_block", pc |-> "done",
                                 consensus_hash |-> gate.demo.consensus_hash,
                                 node_id |-> gate.obj.node_id,
                                 ret |-> can_create],
                       !.demo.can_create_block = can_create,
                       !.demo.can_create = can_create,
                       !.demo.pc = IF can_create THEN "L83" ELSE "L76"]
    /\ UNCHANGED <<chain, pending_transactions, clock, log, cb, mk>>

\* line 76: find_valid_nonce is called (max_attempts is 100000 in the
\* source, MaxAttempts here)
DemoSearch ==
    /\ gate.demo.pc = "L76"
    /\ gate' = [gate EXCEPT
                   !.prev = gate.call,
                   !.call = [op |-> "find_valid_nonce", pc |-> "L87",
                             consensus_hash |-> gate.demo.consensus_hash,
                             max_attempts |-> MaxAttempts,
                             nonce |-> 0,
                             examined |-> <<>>,
                             ret |-> [found |-> FALSE, nonce |-> 0]],
                   !.demo.pc = "L77"]
    /\ UNCHANGED <<chain, pending_transactions, clock, log, cb, mk>>

\* lines 77-81: the search has returned; `if nonce:` decides
DemoIfNonce ==
    /\ gate.demo.pc = "L77"
    /\ gate.call.pc = "done"
    /\ LET nonce == NonceOf(gate.call.ret)
       IN  gate' = [gate EXCEPT
                       !.demo.nonce = nonce,
                       !.demo.can_create =
                           IF Truthy(nonce) THEN TRUE ELSE gate.demo.can_create,
                       !.demo.pc = "L83"]
    /\ UNCHANGED <<chain, pending_transactions, clock, log, cb, mk>>

\* line 83 and line 151 of run_full_demo: `if can_create:`
DemoIfCanCreate ==
    /\ gate.demo.pc = "L83"
    /\ gate' = [gate EXCEPT
                   !.demo.pc = IF gate.demo.can_create THEN "L153" ELSE "L163"]
    /\ UNCHANGED <<chain, pending_transactions, clock, log, cb, mk>>

\* line 153, demonstrate_block_creation: create_block on the snapshot
DemoCreate ==
    /\ gate.demo.pc = "L153"
    /\ Len(log) = Len(DemoTransactions)
    /\ create_block(gate.demo.astronomical_snapshot)

\* line 156, demonstrate_validation, on the block just created
DemoValidate ==
    /\ gate.demo.pc = "L153"
    /\ Len(log) > Len(DemoTransactions)
    /\ LET block_data == Block_to_dict(get_latest_block)
           is_valid_astronomical == validate_astronomical_block(block_data)
           is_valid_chain == is_chain_valid
       IN  gate' = [gate EXCEPT
                       !.prev = gate.call,
                       !.call = [op |-> "validate_astronomical_block",
                                 pc |-> "done",
                                 block_data |-> block_data,
                                 ret |-> is_valid_astronomical],
                       !.demo.is_valid =
                           is_valid_astronomical /\ is_valid_chain,
                       !.demo.pc = "L166"]
    /\ UNCHANGED <<chain, pending_transactions, clock, log, cb, mk>>

\* line 163: no block this round
DemoPaused ==
    /\ gate.demo.pc = "L163"
    /\ gate' = [gate EXCEPT !.demo.pc = "L166"]
    /\ UNCHANGED <<chain, pending_transactions, clock, log, cb, mk>>

\* lines 166-169, show_final_state: the report is read and the run returns
DemoFinal ==
    /\ gate.demo.pc = "L166"
    /\ gate' = [gate EXCEPT
                   !.demo.final_state = get_chain_info,
                   !.demo.pc = "done"]
    /\ UNCHANGED <<chain, pending_transactions, clock, log, cb, mk>>

\* lines 171-175: the handler of run_full_demo; the run returns False
DemoExcept ==
    /\ gate.demo.pc = "L171"
    /\ gate' = [gate EXCEPT !.demo.raised = TRUE, !.demo.pc = "done"]
    /\ UNCHANGED <<chain, pending_transactions, clock, log, cb, mk>>

NextDemo ==
    \/ DemoAddTransaction \/ DemoFetch \/ DemoSeal \/ DemoCanCreate
    \/ DemoSearch \/ FvFor \/ FvTry \/ DemoIfNonce \/ DemoIfCanCreate
    \/ DemoCreate \/ DemoValidate \/ DemoPaused \/ DemoFinal \/ DemoExcept
    \/ Tick

SpecDemo == InitDemo /\ [][NextDemo]_vars

----------------------------------------------------------------------------
\* The read operations of the ledger as calls of a client, in the order of
\* run_full_demo: is_chain_valid (demonstrate_validation), then
\* show_final_state with get_chain_info, get_balance of the three addresses
\* and get_latest_block.  Each returns into gate.call.  The client reads
\* after it has written: transactions, blocks, and writes to the attributes
\* of stored blocks, so that is_chain_valid has both answers.

\* addresses of show_final_state, in its order
FinalAddresses == <<"astro_alice", "astro_bob", "astro_charlie">>

\* a write of the client, before its first read
WriteFirst ==
    /\ gate.call.op = "none"
    /\ (Submit \/ Mint \/ TamperField)

\* line 106: self.blockchain.is_chain_valid()
IsChainValidCall ==
    /\ gate.call.op = "none"
    /\ gate' = [gate EXCEPT
                   !.call = [op |-> "is_chain_valid", pc |-> "done",
                             ret |-> is_chain_valid]]
    /\ UNCHANGED <<chain, pending_transactions, clock, log, cb, mk>>

\* line 118: self.blockchain.get_chain_info(), with or without a validation
\* before it
GetChainInfoCall ==
    /\ gate.call.op \in {"none", "is_chain_valid"}
    /\ gate' = [gate EXCEPT
                   !.call = [op |-> "get_chain_info", pc |-> "done",
                             ret |-> get_chain_info]]
    /\ UNCHANGED <<chain, pending_transactions, clock, log, cb, mk>>

\* lines 125-127: self.blockchain.get_balance(addr) for addr in addresses
GetBalanceCall ==
    /\ gate.call.op \in {"get_chain_info", "get_balance"}
    /\ LET k == IF gate.call.op = "get_balance" THEN gate.call.k + 1 ELSE 1
       IN  /\ k <= Len(FinalAddresses)
           /\ gate' = [gate EXCEPT
                          !.call = [op |-> "get_balance", pc |-> "done",
                                    k |-> k,
                                    address |-> FinalAddresses[k],
                                    ret |-> get_balance(FinalAddresses[k])]]
    /\ UNCHANGED <<chain, pending_transactions, clock, log, cb, mk>>

\* line 130: self.blockchain.get_latest_block()
GetLatestBlockCall ==
    /\ gate.call.op = "get_balance"
    /\ gate.call.k = Len(FinalAddresses)
    /\ gate' = [gate EXCEPT
                   !.call = [op |-> "get_latest_block", pc |-> "done",
                             ret |-> get_latest_block]]
    /\ UNCHANGED <<chain, pending_transactions, clock, log, cb, mk>>

NextRead ==
    \/ WriteFirst \/ IsChainValidCall \/ GetChainInfoCall
    \/ GetBalanceCall \/ GetLatestBlockCall

SpecRead == InitRound /\ [][NextRead]_vars

----------------------------------------------------------------------------
\* Helpers of the properties.

\* every transaction stored in the blocks of a chain, in chain order
RECURSIVE TransactionsOf(_)
TransactionsOf(blocks) ==
    IF blocks = <<>> THEN <<>>
    ELSE Head(blocks).transactions \o TransactionsOf(Tail(blocks))

\* how many times x occurs in a sequence
Count(x, seq) == Cardinality({k \in 1..Len(seq) : seq[k] = x})

\* the transactions a running create_block has taken out of the pool for
\* the block it is building
InFlight ==
    IF cb.pc = "L121" THEN cb.transactions
    ELSE IF cb.pc = "L124" THEN cb.new_block.transactions
    ELSE <<>>

----------------------------------------------------------------------------
\* C1: after any sequence of addTransaction and createBlock calls on a fresh
\* ledger, with no stored block touched, isValid() is true: every block after
\* the genesis block names the hash of its predecessor and stores the hash
\* that recomputation gives.
C1_ValidAfterCreates ==
    /\ is_chain_valid
    /\ \A i \in 2..Len(chain) :
          /\ chain[i].previous_hash = chain[i - 1].hash
          /\ chain[i].hash = Block_calculate_hash(chain[i])

\* two blocks were created, one of them with transactions
C1_Witness ==
    /\ Len(chain) = 3
    /\ chain[2].transactions # <<>>
    /\ is_chain_valid

\* C4: createBlock drains the pool as one step: when it returns the pool is
\* empty and the new block holds exactly the transactions that were pending,
\* in the order they were added; none is dropped or duplicated.
C4_DrainFifo ==
    /\ [][(\E s \in SnapshotInputs : create_block(s)) =>
            /\ pending_transactions' = <<>>
            /\ Len(chain') = Len(chain) + 1
            /\ chain'[Len(chain')].transactions = pending_transactions]_vars
    /\ [](TransactionsOf(chain) \o pending_transactions = Added)

\* a block took two different pending transactions and left the pool empty
C4_Witness ==
    /\ Len(chain) >= 2
    /\ Len(chain[2].transactions) >= 2
    /\ chain[2].transactions[1] # chain[2].transactions[2]
    /\ chain[2].transactions = SubSeq(Added, 1, Len(chain[2].transactions))
    /\ pending_transactions = <<>>

\* C6: the chain is never empty, chain[0] is the genesis block and the block
\* at position i has index i; createBlock appends exactly one block and no
\* operation removes or reorders blocks, so latest() never fails.
C6_IndexedChain ==
    /\ [](/\ Len(chain) >= 1
          /\ chain[1].index = 0
          /\ chain[1].previous_hash = "0"
          /\ chain[1].transactions = <<>>
          /\ DictGet(chain[1].astronomical_data, "type", "") = "genesis"
          /\ \A i \in 1..Len(chain) : chain[i].index = i - 1
          /\ get_latest_block = chain[Len(chain)])
    /\ [][/\ (\E s \in SnapshotInputs : create_block(s)) =>
                /\ Len(chain') = Len(chain) + 1
                /\ SubSeq(chain', 1, Len(chain)) = chain
          /\ ~(\E s \in SnapshotInputs : create_block(s)) => chain' = chain]_vars

\* two blocks follow the genesis block
C6_Witness ==
    /\ Len(chain) = 3
    /\ chain[3].index = 2
    /\ Len(Added) >= 1

\* the fingerprint of the genesis block: 64 zeros
ZeroFingerprint ==
    "0000000000000000" \o "0000000000000000" \o "0000000000000000"
    \o "0000000000000000"

\* C9: a freshly constructed ledger holds exactly the genesis block (index 0,
\* no transactions, previous hash "0", the all-zero fingerprint), has an
\* empty pending pool, and reports isValid() = true and latest().index = 0.
C9_FreshLedger ==
    log = <<>> =>
        /\ Len(chain) = 1
        /\ chain[1].index = 0
        /\ chain[1].transactions = <<>>
        /\ chain[1].previous_hash = "0"
        /\ chain[1].astronomical_hash = ZeroFingerprint
        /\ pending_transactions = <<>>
        /\ is_chain_valid
        /\ get_latest_block.index = 0
        /\ get_chain_info.length = 1
        /\ get_chain_info.pending_transactions = 0

\* the ledger right after construction, no call made yet
C9_Witness ==
    /\ log = <<>>
    /\ get_chain_info.is_valid
    /\ get_chain_info.latest_block.index = 0

\* C2: isValid() becomes false after mutating any field of any stored block
\* without recomputing hashes; in particular after altering the amount of a
\* transaction that is inside a stored block.
C2_TamperDetected ==
    [][(TamperField \/ TamperTransaction) => ~is_chain_valid']_vars

\* C3: validateBlock returns false for the serialized form of a block whose
\* stored astronomical_hash was edited after creation while its anchored
\* snapshot was left unchanged.
C3_EditedFingerprintRejected ==
    [][\A i \in 1..Len(chain) :
          TamperBlock(i, "astronomical_hash", TamperValue("astronomical_hash"))
              => ~validate_astronomical_block(Block_to_dict(chain'[i]))]_vars

\* C5: when addTransaction runs interleaved with createBlock no transaction
\* is lost: a transaction added after the pool swap has begun stays pending
\* for the next block, so every added transaction is either pending or in
\* exactly one block (the one being built included).
C5_NoTransactionLost ==
    LET held == TransactionsOf(chain) \o InFlight \o pending_transactions
    IN  \A k \in 1..Len(Added) : Count(Added[k], held) = Count(Added[k], Added)

\* the exact sum of balanceOf over a set of addresses
RECURSIVE SumOfBalances(_)
SumOfBalances(S) ==
    IF S = {} THEN 0
    ELSE LET x == CHOOSE y \in S : TRUE
         IN  get_balance(x) + SumOfBalances(S \ {x})

\* the exact total received by an address over a sequence of transactions
RECURSIVE Received(_, _)
Received(a, transactions) ==
    IF transactions = <<>> THEN 0
    ELSE (IF Head(transactions).to_address = a
          THEN Head(transactions).amount ELSE 0)
         + Received(a, Tail(transactions))

\* the exact total sent by an address over a sequence of transactions
RECURSIVE Sent(_, _)
Sent(a, transactions) ==
    IF transactions = <<>> THEN 0
    ELSE (IF Head(transactions).from_address = a
          THEN Head(transactions).amount ELSE 0)
         + Sent(a, Tail(transactions))

\* the addresses that appear as sender or receiver in the ledger
AddressesSeen ==
    LET all == TransactionsOf(chain) \o pending_transactions
    IN  {all[k].from_address : k \in 1..Len(all)}
        \cup {all[k].to_address : k \in 1..Len(all)}

\* C7: after any sequence of addTransaction and createBlock calls the sum of
\* balanceOf(a) over the distinct addresses of the ledger's transactions is
\* zero, also when a transaction's sender and receiver are the same address.
C7_BalancesSumToZero == SumOfBalances(AddressesSeen) = 0

\* C8: balanceOf(address) is the total received minus the total sent over the
\* transactions in the chain's blocks, pending transactions not counted; with
\* Alice->Bob 100, Bob->Charlie 50, Charlie->Alice 25 in one block the
\* balances are -75, 50 and 25.
C8_BalanceIsReceivedMinusSent ==
    /\ \A a \in Addresses :
          get_balance(a) = Received(a, TransactionsOf(chain))
                          - Sent(a, TransactionsOf(chain))
    /\ (/\ Len(chain) = 2
        /\ Len(chain[2].transactions) = 3
        /\ \A k \in 1..3 :
              <<chain[2].transactions[k].from_address,
                chain[2].transactions[k].to_address,
                chain[2].transactions[k].amount>>
              = <<<<"astro_alice", "astro_bob", 100>>,
                  <<"astro_bob", "astro_charlie", 50>>,
                  <<"astro_charlie", "astro_alice", 25>>>>[k])
       => /\ get_balance("astro_alice") = -75
          /\ get_balance("astro_bob") = 50
          /\ get_balance("astro_charlie") = 25

\* the root as the claim words it: while more than one hash remains, repeat
\* the last hash if the count is odd and replace adjacent pairs by the hash
\* of their concatenation
RECURSIVE C10_Fold(_)
C10_Fold(hs) ==
    IF Len(hs) = 1 THEN hs[1]
    ELSE LET even == IF Len(hs) % 2 = 1 THEN hs \o <<hs[Len(hs)]>> ELSE hs
         IN  C10_Fold([k \in 1..(Len(even) \div 2) |->
                          "H(" \o even[2 * k - 1] \o even[2 * k] \o ")"])

C10_Expected(transactions) ==
    IF Len(transactions) = 0 THEN "H()"
    ELSE IF Len(transactions) = 1 THEN transactions[1].tx_hash
    ELSE C10_Fold([k \in 1..Len(transactions) |-> transactions[k].tx_hash])

\* C10: computeMerkleRoot terminates for every finite transaction list and
\* returns hash("") for the empty list, the transaction's own hash for one
\* transaction, and otherwise the pairwise fold with the last hash repeated
\* at odd counts.
C10_MerkleRoot ==
    /\ <>(mk.pc = "done")
    /\ [](mk.pc = "done" =>
            /\ mk.ret = C10_Expected(mk.transactions)
            /\ mk.ret = calculate_merkle_root(mk.transactions))

\* the call returned for three transactions: the third hash was repeated
C10_Witness ==
    /\ mk.pc = "done"
    /\ Len(mk.transactions) = 3
    /\ mk.ret = "H(" \o "H(" \o mk.transactions[1].tx_hash
                            \o mk.transactions[2].tx_hash \o ")"
                     \o "H(" \o mk.transactions[3].tx_hash
                            \o mk.transactions[3].tx_hash \o ")" \o ")"

----------------------------------------------------------------------------
\* C11: canCreateBlock(fingerprint, identity) returns true if and only if
\* the hash of fingerprint and identity joined by the separator starts with
\* the configured difficulty prefix; the same arguments always give the same
\* answer, and the call changes no gate state.
C11_CanCreateBlock ==
    /\ [](gate.call.op = "can_create_block" =>
            (gate.call.ret <=>
                ("H(" \o gate.call.consensus_hash \o "_" \o gate.call.node_id
                 \o ")") \in gate.zeros))
    /\ [](/\ gate.call.op = "can_create_block"
          /\ gate.prev.op = "can_create_block"
          /\ gate.prev.consensus_hash = gate.call.consensus_hash
          /\ gate.prev.node_id = gate.call.node_id
          => gate.prev.ret = gate.call.ret)
    /\ [][CanCreateBlockCall => gate'.obj = gate.obj]_vars

\* the same question was asked twice and answered yes twice, for an identity
\* that is not the gate's own and for which the gate's own is refused
C11_Witness ==
    /\ gate.call.op = "can_create_block"
    /\ gate.prev.op = "can_create_block"
    /\ gate.prev.consensus_hash = gate.call.consensus_hash
    /\ gate.prev.node_id = gate.call.node_id
    /\ gate.call.node_id # gate.obj.node_id
    /\ gate.call.ret
    /\ ~can_create_block(gate.call.consensus_hash, gate.obj.node_id)

\* the nonces below max_attempts whose candidate hash has the prefix
C12_Admitting(consensus_hash, max_attempts) ==
    {n \in 0..(max_attempts - 1) :
        ("H(" \o consensus_hash \o "_" \o gate.obj.node_id \o "_"
         \o ToString(n) \o ")") \in gate.zeros}

\* C12: findValidNonce(fingerprint, maxAttempts) examines nonces 0, 1, ... in
\* increasing order, stops after at most maxAttempts candidates, and returns
\* the smallest nonce in 0..maxAttempts-1 whose hash of fingerprint, identity
\* and nonce has the difficulty prefix; it returns "not found" if and only if
\* no nonce in that range admits.
C12_FindValidNonce ==
    /\ [](gate.call.op = "find_valid_nonce" =>
            LET c == gate.call
                admitting == C12_Admitting(c.consensus_hash, c.max_attempts)
            IN  /\ \A k \in 1..Len(c.examined) : c.examined[k] = k - 1
                /\ Len(c.examined) <= c.max_attempts
                /\ c.pc = "done" =>
                      /\ c.ret.found <=> admitting # {}
                      /\ c.ret.found =>
                            /\ c.ret.nonce \in admitting
                            /\ \A n \in admitting : c.ret.nonce <= n
                            /\ Len(c.examined) = c.ret.nonce + 1
                      /\ ~c.ret.found => Len(c.examined) = c.max_attempts)
    /\ (gate.call.pc # "done") ~> (gate.call.pc = "done")

\* a search returned nonce 1 although a larger nonce admits as well
C12_Witness ==
    /\ gate.call.op = "find_valid_nonce"
    /\ gate.call.pc = "done"
    /\ gate.call.ret.found
    /\ gate.call.ret.nonce = 1
    /\ gate.call.examined = <<0, 1>>
    /\ Cardinality(C12_Admitting(gate.call.consensus_hash,
                                 gate.call.max_attempts)) >= 2

\* a serialized block without its anchored snapshot
C13_WithoutSnapshot(block_data) ==
    [k \in (DOMAIN block_data) \ {"astronomical_data"} |-> block_data[k]]

\* C13: validateBlock never raises: for every block-data input it returns a
\* boolean, and it returns false whenever the anchored snapshot is absent
\* from the block data or the fingerprint recomputed from the snapshot
\* differs from the one the block claims to carry.
C13_ValidateNeverRaises ==
    \A i \in 1..Len(chain) :
        LET block_data == Block_to_dict(chain[i])
            recomputed == calculate_astronomical_consensus(
                              block_data["astronomical_data"])
        IN  /\ validate_astronomical_block(block_data) \in BOOLEAN
            /\ ~validate_astronomical_block(C13_WithoutSnapshot(block_data))
            /\ (recomputed.raised
                \/ recomputed.value # block_data["astronomical_hash"])
                  => ~validate_astronomical_block(block_data)

\* whether each source of a snapshot that is present carries all its
\* readings, as numbers
C14_SourcesComplete(astronomical_data) ==
    LET sources == DictGet(astronomical_data, "sources", EmptyDict)
    IN  /\ "iss" \in DOMAIN sources =>
              /\ {"latitude", "longitude"} \subseteq DOMAIN sources["iss"]
              /\ sources["iss"]["latitude"].numeric
              /\ sources["iss"]["longitude"].numeric
        /\ "solar" \in DOMAIN sources =>
              /\ "flux" \in DOMAIN sources["solar"]
              /\ sources["solar"]["flux"].numeric

\* the fingerprint of the snapshot made of those of iss 45.128, -123.456,
\* solar flux 0.2345 and timestamp 2026-11-01T07:41:05 that are present
C14_Expected(timestamp, iss, solar) ==
    LET a == IF iss.present THEN "iss_45.13_-123.46" ELSE ""
        b == IF solar.present THEN "solar_0.2345" ELSE ""
        c == IF timestamp.present THEN "time_2026-11-01T07:40:00" ELSE ""
        ab == IF a # "" /\ b # "" THEN a \o "_" \o b ELSE a \o b
        abc == IF ab # "" /\ c # "" THEN ab \o "_" \o c ELSE ab \o c
    IN  "H(" \o abc \o ")"

\* C14: deriveFingerprint never fails on a partial snapshot: for every subset
\* of {iss source, solar source, timestamp} that is absent it returns the
\* hash of the remaining components in the order iss, solar, time bucket; an
\* empty snapshot yields the hash of the empty string and a snapshot with only
\* a timestamp the hash of just the time bucket.
C14_PartialSnapshot ==
    gate.call.op = "calculate_astronomical_consensus" =>
        /\ C14_SourcesComplete(gate.call.astronomical_data)
              => ~gate.call.raised
        /\ \A timestamp \in {Absent, Present(IsoTime(7, 41, 5, 0, ""))} :
           \A iss \in {Absent, Present([latitude  |-> Num(45128),
                                        longitude |-> Num(-123456)])} :
           \A solar \in {Absent, Present([flux |-> Num(23450)])} :
              gate.call.astronomical_data = SnapshotOf(timestamp, iss, solar)
                  => /\ ~gate.call.raised
                     /\ gate.call.ret = C14_Expected(timestamp, iss, solar)
        /\ gate.call.astronomical_data = EmptyDict => gate.call.ret = "H()"

\* the empty snapshot gave the hash of "", then a snapshot with iss and a
\* timestamp but no solar source gave the hash of those two, joined
C14_Witness ==
    /\ gate.prev.op = "calculate_astronomical_consensus"
    /\ gate.prev.astronomical_data = EmptyDict
    /\ gate.prev.ret = "H()"
    /\ DOMAIN gate.call.astronomical_data = {"sources", "timestamp"}
    /\ DOMAIN gate.call.astronomical_data["sources"] = {"iss"}
    /\ gate.call.ret = "H(iss_45.13_-123.46_time_2026-11-01T07:40:00)"

\* C15: malformed snapshot data is never propagated as a failure by
\* deriveFingerprint: with an unparseable timestamp, a source entry that
\* lacks a reading field or a non-numeric reading, a fingerprint is still
\* returned.
C15_MalformedRecovered ==
    gate.call.op = "calculate_astronomical_consensus" => ~gate.call.raised

\* the 10-minute bucket of a well-formed timestamp
C16_Bucket(timestamp) ==
    <<timestamp.date, timestamp.hour, timestamp.minute \div 10>>

\* whether both calls were made on well-formed timestamps, with equal readings
C16_Comparable ==
    /\ gate.call.op = "calculate_astronomical_consensus"
    /\ gate.prev.op = "calculate_astronomical_consensus"
    /\ ~gate.call.raised
    /\ ~gate.prev.raised
    /\ "timestamp" \in DOMAIN gate.call.astronomical_data
    /\ "timestamp" \in DOMAIN gate.prev.astronomical_data
    /\ gate.call.astronomical_data["timestamp"].wf
    /\ gate.prev.astronomical_data["timestamp"].wf
    /\ DictGet(gate.call.astronomical_data, "sources", EmptyDict)
       = DictGet(gate.prev.astronomical_data, "sources", EmptyDict)

\* C16: two snapshots with equal source readings whose timestamps have the
\* same date, hour and floor(minute/10), differing only in the minute's last
\* digit, seconds or sub-seconds, yield the same fingerprint; timestamps in
\* different buckets yield different time components.
C16_BucketInvariant ==
    C16_Comparable =>
        LET t1 == gate.prev.astronomical_data["timestamp"]
            t2 == gate.call.astronomical_data["timestamp"]
        IN  /\ (C16_Bucket(t1) = C16_Bucket(t2) /\ t1.offset = t2.offset)
                  => gate.prev.ret = gate.call.ret
            /\ C16_Bucket(t1) # C16_Bucket(t2)
                  => /\ TimeComponent(t1) # TimeComponent(t2)
                     /\ gate.prev.ret # gate.call.ret

\* 07:41:05 and 07:49:59.999999 gave the same fingerprint
C16_Witness ==
    /\ C16_Comparable
    /\ gate.prev.astronomical_data["timestamp"] = IsoTime(7, 41, 5, 0, "")
    /\ gate.call.astronomical_data["timestamp"]
       = IsoTime(7, 49, 59, 999999, "")
    /\ "sources" \in DOMAIN gate.call.astronomical_data
    /\ gate.prev.ret = gate.call.ret

\* whether both calls were made on snapshots with the same time component
\* that carry all three readings
C17_Comparable ==
    /\ gate.call.op = "calculate_astronomical_consensus"
    /\ gate.prev.op = "calculate_astronomical_consensus"
    /\ ~gate.call.raised
    /\ ~gate.prev.raised
    /\ \A c \in {gate.call, gate.prev} :
          /\ "sources" \in DOMAIN c.astronomical_data
          /\ DOMAIN c.astronomical_data["sources"] = {"iss", "solar"}
    /\ DictGet(gate.call.astronomical_data, "timestamp", RawTime(""))
       = DictGet(gate.prev.astronomical_data, "timestamp", RawTime(""))

\* the readings of a call: latitude, longitude, flux
C17_Readings(c) ==
    <<c.astronomical_data["sources"]["iss"]["latitude"].value,
      c.astronomical_data["sources"]["iss"]["longitude"].value,
      c.astronomical_data["sources"]["solar"]["flux"].value>>

\* whether the readings of the two calls differ by less than the rounding
\* precision: 0.005 degrees, 0.00005 of flux
C17_Jitter ==
    \A k \in 1..3 :
        Abs(C17_Readings(gate.call)[k] - C17_Readings(gate.prev)[k]) < 5

\* whether two readings round to the same printed number: the same sign and
\* the same nearest multiple of ten
C17_SameRounding(v, w) ==
    /\ (v < 0) = (w < 0)
    /\ (Abs(v) + 5) \div 10 = (Abs(w) + 5) \div 10

\* C17 as stated: for any two snapshots with the same time bucket whose
\* latitude and longitude each differ by less than 0.005 and whose flux
\* differs by less than 0.00005, the fingerprints are equal.
C17_JitterInvariant ==
    (C17_Comparable /\ C17_Jitter) => gate.prev.ret = gate.call.ret

\* C17 amended: for any two snapshots with the same time bucket whose
\* latitude and longitude each differ by less than 0.005, whose flux differs
\* by less than 0.00005 and whose readings round to the same printed numbers,
\* the fingerprints are equal.
C17_JitterWithinCell ==
    (/\ C17_Comparable
     /\ C17_Jitter
     /\ \A k \in 1..3 : C17_SameRounding(C17_Readings(gate.call)[k],
                                         C17_Readings(gate.prev)[k]))
        => gate.prev.ret = gate.call.ret

\* latitudes 45.128 and 45.131, fluxes 0.2345 and 0.23452: one fingerprint
C17_Witness ==
    /\ C17_Comparable
    /\ C17_Readings(gate.prev) = <<45128, -123456, 23450>>
    /\ C17_Readings(gate.call) = <<45131, -123456, 23452>>
    /\ gate.prev.ret = gate.call.ret

\* the seconds a UTC offset puts a local time ahead of UTC
C18_OffsetSeconds(offset) ==
    CASE offset = "+02:00" -> 2 * 3600
      [] offset = "-05:00" -> -(5 * 3600)
      [] OTHER -> 0

\* whether at least the interval of wall-clock time lies between the instant
\* a timestamp names and the instant of the call
C18_Elapsed(timestamp, now, block_interval) ==
    now - (SecondsOf(timestamp) - C18_OffsetSeconds(timestamp.offset))
        >= block_interval * 60 + (IF timestamp.microsecond > 0 THEN 1 ELSE 0)

\* C18: isTimeForNewBlock(lastBlockTimestamp) returns true when no previous
\* timestamp is given; for every well-formed ISO-8601 timestamp, with or
\* without a UTC offset, it returns true if and only if the wall-clock time
\* elapsed since that timestamp is at least the configured interval; for
\* malformed input it returns true without raising.
C18_TimeGate ==
    gate.call.op = "is_time_for_new_block" =>
        LET last == gate.call.last_block_timestamp
        IN  /\ ~last.wf => gate.call.ret = TRUE
            /\ last.wf =>
                  (gate.call.ret
                      <=> C18_Elapsed(last, gate.call.now,
                                      gate.obj.block_interval))

\* C19: isValid() returns true if and only if, for every i with
\* 1 <= i < chain length, chain[i].hash equals the hash recomputed from
\* chain[i]'s current index, timestamp, previous hash, stored Merkle root,
\* fingerprint and nonce, and chain[i].previousHash equals chain[i-1].hash;
\* the genesis block's own stored hash is not compared with its
\* recomputation, and isValid() never aborts.
C19_IsValidExact ==
    /\ is_chain_valid \in BOOLEAN
    /\ is_chain_valid <=>
          \A i \in 1..(Len(chain) - 1) :
              LET current_block == chain[i + 1]
                  previous_block == chain[i]
              IN  /\ current_block.hash
                     = "H(" \o ToString(current_block.index)
                       \o current_block.timestamp
                       \o current_block.previous_hash
                       \o current_block.merkle_root
                       \o current_block.astronomical_hash
                       \o ToString(current_block.nonce) \o ")"
                  /\ current_block.previous_hash = previous_block.hash

\* the timestamp of the genesis block was rewritten under a chain of two
\* blocks: its stored hash is no longer its recomputation, isValid() is true
C19_Witness ==
    /\ Len(chain) >= 2
    /\ chain[1].hash # Block_calculate_hash(chain[1])
    /\ chain[1].timestamp = TamperValue("timestamp")
    /\ is_chain_valid

\* C20: round trip through the gate: for every snapshot s, if the fingerprint
\* deriveFingerprint(s) is stored into s and createBlock(s) is called, then
\* the created block stores that fingerprint and validateBlock on the block's
\* serialized form returns true, as long as neither the block nor the
\* snapshot is changed in between.
C20_RoundTrip ==
    /\ [][MintSealed =>
            /\ chain'[Len(chain')].astronomical_hash = gate.call.ret
            /\ chain'[Len(chain')].astronomical_data
               = gate.call.astronomical_data]_vars
    /\ [](gate.call.op = "validate_astronomical_block" =>
            /\ gate.call.ret = TRUE
            /\ gate.call.block_data["astronomical_hash"] = gate.prev.ret
            /\ gate.prev.ret
               = calculate_astronomical_consensus(
                     gate.call.block_data["astronomical_data"]).value)

\* the snapshot with an unparseable timestamp and no solar source made the
\* round trip in a block that holds a transaction
C20_Witness ==
    /\ gate.call.op = "validate_astronomical_block"
    /\ gate.call.ret
    /\ gate.call.block_data["astronomical_hash"]
       = "H(iss_45.13_-123.46_time_yesterday)"
    /\ Len(gate.call.block_data["transactions"]) >= 1


----------------------------------------------------------------------------
\* C21: when run_full_demo has returned, a block was appended to the chain
\* if and only if the node was admitted for the fingerprint of the round:
\* can_create_block returned true, or find_valid_nonce returned a nonce, 0
\* included; when the node was not admitted the chain is the one of the
\* construction and the pending pool holds the transactions that were added.

\* the node was admitted for the fingerprint of the round
C21_Admitted ==
    \/ gate.demo.can_create_block
    \/ gate.demo.nonce.called /\ gate.demo.nonce.found

C21_AppendedIffAdmitted ==
    gate.demo.pc = "done" =>
        /\ (Len(chain) = 2) <=> C21_Admitted
        /\ ~C21_Admitted =>
              /\ Len(chain) = 1
              /\ pending_transactions = Added


----------------------------------------------------------------------------
\* C22: add_transaction leaves the chain as it is and puts the transaction
\* at the end of the pending pool; get_latest_block, is_chain_valid,
\* get_balance and get_chain_info leave the chain and the pending pool as
\* they are, and the length, the pending count and the validity that
\* get_chain_info reports are the length of the chain, the size of the pool
\* and the answer of is_chain_valid in the state it was called in.

\* a step of add_transaction, and one in which a read operation returns
C22_AddStep ==
    /\ Len(log') = Len(log) + 1
    /\ log'[Len(log')].op = "add_transaction"

C22_ReadStep ==
    /\ gate'.call # gate.call
    /\ gate'.call.op \in {"get_latest_block", "is_chain_valid", "get_balance",
                          "get_chain_info"}

C22_FrameEffects ==
    [][/\ C22_AddStep =>
              /\ chain' = chain
              /\ pending_transactions' =
                     Append(pending_transactions, log'[Len(log')].transaction)
       /\ C22_ReadStep =>
              /\ chain' = chain
              /\ pending_transactions' = pending_transactions
              /\ gate'.call.op = "get_chain_info" =>
                    /\ gate'.call.ret.length = Len(chain)
                    /\ gate'.call.ret.pending_transactions =
                           Len(pending_transactions)
                    /\ gate'.call.ret.is_valid = is_chain_valid]_vars

\* get_chain_info has reported on a chain of two blocks that is_chain_valid
\* rejects, with a transaction pending
C22_Witness ==
    /\ gate.call.op = "get_chain_info"
    /\ Len(chain) = 2
    /\ Len(pending_transactions) = 1
    /\ ~gate.call.ret.is_valid
    /\ \E k \in 1..Len(log) : log[k].op = "add_transaction"


----------------------------------------------------------------------------
\* C23: the nonce of a block and the nonce of the search stay apart: in every
\* state of a round, whatever find_valid_nonce returned, every block of the
\* chain has nonce 0 and carries the hash that calculate_hash gives for its
\* fields with nonce 0.
C23_BlockNonceZero ==
    \A i \in 1..Len(chain) :
        /\ chain[i].nonce = 0
        /\ chain[i].hash = Block_calculate_hash([chain[i] EXCEPT !.nonce = 0])

\* the search returned a nonce above 0 and the block of the round was created
C23_Witness ==
    /\ gate.demo.pc = "done"
    /\ gate.demo.nonce.called
    /\ gate.demo.nonce.found
    /\ gate.demo.nonce.nonce > 0
    /\ Len(chain) = 2

====
